---- MODULE Spec2Model ----
(***************************************************************************)
(* Model of inventory_dashboard.py: a Streamlit script that is re-executed *)
(* top to bottom on every user interaction.  The state is the source file, *)
(* the st.cache_data cache of load_data, the widget state of the session,  *)
(* and what the last execution of the script left behind: its global       *)
(* namespace, the elements it put on the screen and the exception (if any) *)
(* that stopped it.                                                        *)
(*                                                                         *)
(* Numbers: Price is an integer here, so Revenue and every sum is exact.   *)
(* Means are kept as the pair <<sum, count>>.  A missing number (NaN) is   *)
(* <<>>, a present number v is <<v>> where both can occur; a missing       *)
(* string (NaN in an object column) is the string "NaN".                   *)
(***************************************************************************)
EXTENDS Integers, Sequences, FiniteSets, TLC

VARIABLES source, cache, session, globals, screen, error, file_read

vars == <<source, cache, session, globals, screen, error, file_read>>

----------------------------------------------------------------------------
(* Bounds *)

MaxRows == 3

----------------------------------------------------------------------------
(* Values *)

NaT == <<>>
NaN == "NaN"
NaNf == <<>>

Columns ==
  {"Date", "Store ID", "Region", "Category", "Inventory Level",
   "Units Sold", "Price", "Seasonality"}

DerivedColumns == {"Month_Name", "Revenue", "Is_Low_Stock", "Is_Overstock"}

month_order ==
  <<"January", "February", "March", "April", "May", "June",
    "July", "August", "September", "October", "November", "December">>

Pages == <<"Sales Overview", "Inventory Status", "Trends & Patterns">>

\* Every string a column of the model can hold, in the order Python's
\* sorted() puts them.
Alphabetical ==
  <<"April", "August", "Clothing", "December", "East", "February",
    "January", "July", "June", "March", "May", "NaN", "November",
    "October", "S001", "S002", "September", "Spring", "Summer", "Toys",
    "West", "Winter">>

AlphabeticalRank ==
  [s \in {Alphabetical[i] : i \in 1..Len(Alphabetical)} |->
     CHOOSE i \in 1..Len(Alphabetical) : Alphabetical[i] = s]

Rank(s) == AlphabeticalRank[s]

Row(date, store, region, category, inv, units, price, season) ==
  [c \in Columns |->
     CASE c = "Date" -> date
       [] c = "Store ID" -> store
       [] c = "Region" -> region
       [] c = "Category" -> category
       [] c = "Inventory Level" -> inv
       [] c = "Units Sold" -> units
       [] c = "Price" -> price
       [] c = "Seasonality" -> season]

\* The lines a source file is made of.  Date is the text mm/dd/yy as the
\* triple <<mm, dd, yy>>; <<13, 1, 23>> and <<2, 29, 23>> are texts that do
\* not name a day.
RowPool ==
  { Row(<<1, 15, 23>>, "S001", "East", "Toys", 99, 10, 10, "Winter"),
    Row(<<3, 1, 23>>, "S001", "East", "Clothing", 100, 30, 10, "Spring"),
    Row(<<12, 31, 99>>, "S001", "West", "Toys", 400, 0, 5, "Winter"),
    Row(<<13, 1, 23>>, "S002", "West", "Clothing", 401, 2, 7, "Summer"),
    Row(<<2, 29, 23>>, "S002", "East", "Toys", 250, 5, 10, "Winter") }

\* The files: a header and 1 to MaxRows different lines of the pool, in
\* any order.
Tables ==
  {t \in UNION { [1..n -> RowPool] : n \in 1..MaxRows } :
     \A i, j \in 1..Len(t) : i # j => t[i] # t[j]}

----------------------------------------------------------------------------
(* pandas helpers *)

RECURSIVE SumSeq(_)
SumSeq(s) == IF s = <<>> THEN 0 ELSE Head(s) + SumSeq(Tail(s))

Col(t, c) == [i \in 1..Len(t) |-> t[i][c]]

\* Series.mean(): NaN for no rows
Mean(s) == IF s = <<>> THEN NaNf ELSE <<SumSeq(s), Len(s)>>

\* sorted(iterable of strings)
RECURSIVE sorted(_)
sorted(S) ==
  IF S = {} THEN <<>>
  ELSE LET m == CHOOSE x \in S : \A y \in S : Rank(x) <= Rank(y)
       IN <<m>> \o sorted(S \ {m})

unique(t, c) == {t[i][c] : i \in 1..Len(t)}

----------------------------------------------------------------------------
(* load_data *)

Year(yy) == IF yy >= 69 THEN 1900 + yy ELSE 2000 + yy

IsLeap(y) == (y % 4 = 0 /\ y % 100 # 0) \/ y % 400 = 0

DaysIn(m, y) ==
  IF m = 2 THEN (IF IsLeap(y) THEN 29 ELSE 28)
  ELSE IF m \in {4, 6, 9, 11} THEN 30 ELSE 31

\* pd.to_datetime(text, format='%m/%d/%y', errors='coerce')
to_datetime(text) ==
  LET mm == text[1]
      dd == text[2]
      y == Year(text[3])
  IN IF mm \in 1..12 /\ dd >= 1 /\ dd <= DaysIn(mm, y)
     THEN <<y, mm, dd>>
     ELSE NaT

\* .dt.strftime('%B')
strftime_B(d) == IF d = NaT THEN NaN ELSE month_order[d[2]]


\* One line of the table load_data returns (lines 21-25), with its position
\* in the file as the DataFrame index.
Derive(raw, i) ==
  LET d == to_datetime(raw["Date"])
  IN [c \in Columns \cup DerivedColumns \cup {"index"} |->
        CASE c = "index" -> i - 1
          [] c = "Date" -> d
          [] c = "Month_Name" -> strftime_B(d)
          [] c = "Revenue" -> raw["Units Sold"] * raw["Price"]
          [] c = "Is_Low_Stock" -> raw["Inventory Level"] < 100
          [] c = "Is_Overstock" -> raw["Inventory Level"] > 400
          [] OTHER -> raw[c]]

\* Body of load_data (lines 20-26).  A column the file does not have is a
\* KeyError at the first line that reads it.
load_data(src) ==
  IF ~src.readable THEN [err |-> "FileNotFoundError"]
  ELSE IF "Date" \notin src.columns THEN [err |-> "KeyError"]
  ELSE IF ~({"Units Sold", "Price"} \subseteq src.columns)
       THEN [err |-> "KeyError"]
  ELSE IF "Inventory Level" \notin src.columns THEN [err |-> "KeyError"]
  ELSE [err |-> "none",
        df |-> [columns |-> src.columns \cup DerivedColumns,
                rows |-> [i \in 1..Len(src.rows) |-> Derive(src.rows[i], i)]]]

----------------------------------------------------------------------------
(* groupby / sort_values / pivot_table *)

\* sort_values: s in the order before, where before[i][j] says that s[i]
\* sorts before s[j]; entries neither before the other keep their order.
SortedBy(s, before) ==
  LET n == Len(s)
      pos(i) == 1 + Cardinality({j \in 1..n :
                   before[j][i] \/ (~before[i][j] /\ j < i)})
  IN [p \in 1..n |-> s[CHOOSE i \in 1..n : pos(i) = p]]

\* a group cut to its first record, as .first() would aggregate
Group_First(t, key, k) == SubSeq(SelectSeq(t, LAMBDA r : r[key] = k), 1, 1)

Group(t, key, k) == SelectSeq(t, LAMBDA r : r[key] = k)

\* groupby(key, dropna=False)
groupby_keys_keepna(t, key) == sorted(unique(t, key))

\* groupby(key): the keys seen, sorted, NaN keys dropped
groupby_keys(t, key) == sorted(unique(t, key) \ {NaN})

\* the series of sums over the groups ks
SumSeries(t, key, val, ks) ==
  [i \in 1..Len(ks) |-> <<ks[i], SumSeq(Col(Group(t, key, ks[i]), val))>>]

\* the series of means over the groups ks
MeanSeries(t, key, val, ks) ==
  [i \in 1..Len(ks) |-> <<ks[i], Mean(Col(Group(t, key, ks[i]), val))>>]

\* groupby(key)[val].sum()
groupby_sum(t, key, val) == SumSeries(t, key, val, groupby_keys(t, key))

\* groupby(key)[val].mean()
groupby_mean(t, key, val) == MeanSeries(t, key, val, groupby_keys(t, key))

\* .sort_values(ascending=False) of a series of numbers
Descending(s) ==
  SortedBy(s, [i \in 1..Len(s) |-> [j \in 1..Len(s) |-> s[i][2] > s[j][2]]])

\* .sort_values() of a series of means sum/count
MeanAscending(s) ==
  SortedBy(s, [i \in 1..Len(s) |-> [j \in 1..Len(s) |->
                 s[i][2][1] * s[j][2][2] < s[j][2][1] * s[i][2][2]]])

\* code of a name in pd.Categorical(categories=month_order); a name that is
\* no category is NaN and sorts last
MonthCode(name) ==
  IF \E i \in 1..Len(month_order) : month_order[i] = name
  THEN CHOOSE i \in 1..Len(month_order) : month_order[i] = name
  ELSE Len(month_order) + 1

\* .sort_values('Month_Name') on the ordered categorical
CalendarOrder(s) ==
  SortedBy(s, [i \in 1..Len(s) |-> [j \in 1..Len(s) |->
                 MonthCode(s[i][1]) < MonthCode(s[j][1])]])

\* lines 208-212 without the sort at line 212
monthly_data_unsorted(t) == groupby_sum(t, "Month_Name", "Revenue")

\* lines 208-212
monthly_data_of(t) == CalendarOrder(groupby_sum(t, "Month_Name", "Revenue"))

\* pivot_table(values='Revenue', index='Category', columns='Region',
\* aggfunc='sum'): a cell without rows is NaN
\* pivot_table(..., fill_value=0)
SumOrZero(rows, val) == <<SumSeq(Col(rows, val))>>

SumOrNaN(rows, val) == IF rows = <<>> THEN NaNf ELSE <<SumSeq(Col(rows, val))>>

CrossTab(t, idx, cols) ==
  [index |-> idx, columns |-> cols,
   values |-> [i \in 1..Len(idx) |-> [j \in 1..Len(cols) |->
      SumOrNaN(SelectSeq(t, LAMBDA x : x["Category"] = idx[i] /\ x["Region"] = cols[j]),
               "Revenue")]]]

pivot_table(t) == CrossTab(t, groupby_keys(t, "Category"), groupby_keys(t, "Region"))

----------------------------------------------------------------------------
(* Formatting of the metric cards *)

\* f"{x:,.0f}" of the mean sum/count: round half to even, "nan" for NaN
Format0f(m) ==
  IF m = NaNf THEN <<>>
  ELSE LET q == m[1] \div m[2]
           r == m[1] % m[2]
       IN IF 2 * r < m[2] THEN <<q>>
          ELSE IF 2 * r > m[2] THEN <<q + 1>>
          ELSE IF q % 2 = 0 THEN <<q>> ELSE <<q + 1>>


----------------------------------------------------------------------------
(* The script, section by section.  An execution is a record e:            *)
(*   e.g      the names the script has bound so far                        *)
(*   e.screen the elements delivered to the browser so far                 *)
(*   e.err    "none", or the exception that stopped the script             *)
(*   e.w      the widget values of the session                             *)
(*   e.cache  the st.cache_data entry of load_data: <<>> or <<df>>         *)
(*   e.read   whether this execution read the source file                  *)

Element(el, at, data) == [el |-> el, at |-> at, data |-> data]

Emit(e, el, at, data) == [e EXCEPT !.screen = Append(@, Element(el, at, data))]

Bind(e, name, value) == [e EXCEPT !.g = (name :> value) @@ @]

Raise(e, exc) == [e EXCEPT !.err = exc]

\* An uncaught exception ends the script: every section below runs only
\* if no earlier one raised.
Failed(e) == e.err # "none"

MetricCard(label, value) == [label |-> label, value |-> value]

Chart(title, series) == [title |-> title, series |-> series]

\* name = value; st.metric(label, f"{name:,}")
BindMetric(e, name, value, at, label) ==
  Emit(Bind(e, name, value), "metric", at, MetricCard(label, <<value>>))

\* name = value; st.metric(label, f"{name:,.0f} units")
BindMean(e, name, value, at, label) ==
  Emit(Bind(e, name, value), "metric", at, MetricCard(label, Format0f(value)))

\* name = value; a chart of it
BindChart(e, name, value, el, at, title) ==
  Emit(Bind(e, name, value), el, at, Chart(title, value))

\* lines 18-28: df = load_data() behind @st.cache_data.  The function has
\* no argument, so the cache has one entry and nothing of the file is part
\* of its key.  A call that raises stores nothing.
Loaded(e, r) ==
  IF r.err # "none" THEN [Raise(e, r.err) EXCEPT !.read = TRUE]
  ELSE [Bind(e, "df", r.df) EXCEPT !.cache = <<r.df>>, !.read = TRUE]

LoadSection(src, e) ==
  IF e.cache # <<>> THEN Bind(e, "df", e.cache[1])
  ELSE Loaded(e, load_data(src))

\* st.sidebar.multiselect(label, sorted(df[column].unique()), default=same)
\* bound to name: the session's value of the widget, the default at first.
MultiselectValue(e, label, options, name, value) ==
  [Bind(Emit(e, "multiselect", "sidebar",
             [label |-> label, options |-> options, value |-> value]),
        name, value)
   EXCEPT !.w = (label :> value) @@ @]

MultiselectOptions(e, label, options, name) ==
  MultiselectValue(e, label, options, name,
                   IF label \in DOMAIN e.w THEN e.w[label]
                   ELSE {options[i] : i \in 1..Len(options)})

Multiselect(e, label, column, name) ==
  IF Failed(e) THEN e
  ELSE IF column \notin e.g["df"].columns THEN Raise(e, "KeyError")
  ELSE MultiselectOptions(e, label, sorted(unique(e.g["df"].rows, column)), name)

\* lines 31-32
SidebarHeader(e) ==
  IF Failed(e) THEN e
  ELSE Emit(Emit(e, "markdown", "sidebar", "# FILTERS"), "markdown", "sidebar", "---")

RegionFilter(e) == Multiselect(e, "Region", "Region", "regions")

CategoryFilter(e) == Multiselect(e, "Category", "Category", "categories")

StoreFilter(e) == Multiselect(e, "Store", "Store ID", "stores")

\* the mask without its Store ID term
Mask_NoStore(r, regions, categories, stores) ==
  /\ r["Region"] \in regions
  /\ r["Category"] \in categories

\* lines 54-56: the boolean mask of one row
Mask(r, regions, categories, stores) ==
  /\ r["Region"] \in regions
  /\ r["Category"] \in categories
  /\ r["Store ID"] \in stores

\* lines 53-57
ApplyFilters(e) ==
  IF Failed(e) THEN e
  ELSE Bind(e, "filtered_df",
            SelectSeq(e.g["df"].rows,
                      LAMBDA r : Mask(r, e.g["regions"], e.g["categories"], e.g["stores"])))

\* lines 60-62
Title(e) ==
  IF Failed(e) THEN e
  ELSE Emit(Emit(Emit(e, "title", "main", "Inventory Optimization Dashboard"),
                 "markdown", "main", "Real-time insights for smarter inventory decisions"),
            "markdown", "main", "---")

\* line 78
IsLowStock(r) == r["Is_Low_Stock"]

\* line 82
IsOverstock(r) == r["Is_Overstock"]

\* lines 65-85
KpiSection(e) ==
  IF Failed(e) THEN e
  ELSE LET f == e.g["filtered_df"]
           e0 == Emit(e, "markdown", "main", "Key Performance Indicators")
           e1 == BindMetric(e0, "total_revenue", SumSeq(Col(f, "Revenue")),
                            "kpi", "Total Revenue")
           e2 == BindMean(e1, "avg_inventory", Mean(Col(f, "Inventory Level")),
                          "kpi", "Avg Inventory")
           e3 == BindMetric(e2, "low_stock_count", Len(SelectSeq(f, IsLowStock)),
                            "kpi", "Low Stock Items")
           e4 == BindMetric(e3, "overstock_count", Len(SelectSeq(f, IsOverstock)),
                            "kpi", "Overstocked Items")
       IN Emit(e4, "markdown", "main", "---")

\* lines 88-92: st.radio, the first option until the user picks one
RadioValue(e, label, name, value) ==
  [Bind(Emit(e, "radio", "main", [label |-> label, options |-> Pages, value |-> value]),
        name, value)
   EXCEPT !.w = (label :> value) @@ @]

PageSelection(e) ==
  IF Failed(e) THEN e
  ELSE RadioValue(e, "Select View:", "page",
                  IF "Select View:" \in DOMAIN e.w THEN e.w["Select View:"] ELSE Pages[1])

\* lines 95-137
SalesOverview(e) ==
  IF Failed(e) THEN e
  ELSE LET f == e.g["filtered_df"]
           at == Pages[1]
           e0 == Emit(e, "markdown", at, "Sales Performance")
           e1 == BindChart(e0, "revenue_region",
                           Descending(groupby_sum(f, "Region", "Revenue")),
                           "bar", at, "Revenue by Region")
           e2 == BindChart(e1, "revenue_category",
                           Descending(groupby_sum(f, "Category", "Revenue")),
                           "bar", at, "Revenue by Category")
           e3 == Emit(Emit(e2, "markdown", at, "---"),
                      "markdown", at, "Top Performing Stores")
       IN BindChart(e3, "store_revenue",
                    Descending(groupby_sum(f, "Store ID", "Revenue")),
                    "bar", at, "Top Stores by Revenue")

\* line 176
LowStock(r) == r["Inventory Level"] < 100

\* line 180 with strict bounds
OptimalStock_Strict(r) == r["Inventory Level"] > 100 /\ r["Inventory Level"] < 400

\* line 180
OptimalStock(r) == r["Inventory Level"] >= 100 /\ r["Inventory Level"] <= 400

\* line 184
HighStock(r) == r["Inventory Level"] > 400

\* lines 140-198
InventoryStatus(e) ==
  IF Failed(e) THEN e
  ELSE LET f == e.g["filtered_df"]
           at == Pages[2]
           e0 == Emit(e, "markdown", at, "Inventory Analysis")
           e1 == Emit(e0, "histogram", at,
                      Chart("Inventory Distribution", Col(f, "Inventory Level")))
           e2 == BindChart(e1, "inv_region",
                           MeanAscending(groupby_mean(f, "Region", "Inventory Level")),
                           "bar", at, "Avg Inventory by Region")
           e3 == Emit(Emit(e2, "markdown", at, "---"), "markdown", at, "Stock Status")
           e4 == BindMetric(e3, "low_stock", Len(SelectSeq(f, LowStock)), at, "Low Stock")
           e5 == BindMetric(e4, "optimal", Len(SelectSeq(f, OptimalStock)),
                            at, "Optimal Stock")
           e6 == BindMetric(e5, "high_stock", Len(SelectSeq(f, HighStock)), at, "High Stock")
           e7 == Emit(Emit(e6, "markdown", at, "---"),
                      "markdown", at, "Inventory by Category")
       IN BindChart(e7, "inv_category", groupby_sum(f, "Category", "Inventory Level"),
                    "pie", at, "Inventory Distribution")

\* lines 203-223
MonthlyTrend(e) ==
  IF Failed(e) THEN e
  ELSE BindChart(Emit(e, "markdown", Pages[3], "Seasonal Patterns"),
                 "monthly_data", monthly_data_of(e.g["filtered_df"]),
                 "line", Pages[3], "Monthly Revenue Trend")

\* lines 225-236
SeasonalBar(e) ==
  IF Failed(e) THEN e
  ELSE IF "Seasonality" \notin e.g["df"].columns THEN Raise(e, "KeyError")
  ELSE BindChart(e, "seasonal_data",
                 groupby_sum(e.g["filtered_df"], "Seasonality", "Units Sold"),
                 "bar", Pages[3], "Units Sold by Season")

\* lines 238-255
Heatmap(e) ==
  IF Failed(e) THEN e
  ELSE BindChart(Emit(Emit(e, "markdown", Pages[3], "---"),
                      "markdown", Pages[3], "Revenue Heatmap"),
                 "pivot_data", pivot_table(e.g["filtered_df"]),
                 "heatmap", Pages[3], "Revenue: Category x Region")

\* lines 201-255
TrendsPatterns(e) == Heatmap(SeasonalBar(MonthlyTrend(e)))

\* lines 95, 140, 201 with the second branch an `if` of its own
View_Fallthrough(e) ==
  IF Failed(e) THEN e
  ELSE IF e.g["page"] = Pages[1] THEN InventoryStatus(SalesOverview(e))
  ELSE IF e.g["page"] = Pages[2] THEN InventoryStatus(e)
  ELSE IF e.g["page"] = Pages[3] THEN TrendsPatterns(e)
  ELSE e

\* lines 95, 140, 201
View(e) ==
  IF Failed(e) THEN e
  ELSE IF e.g["page"] = Pages[1] THEN SalesOverview(e)
  ELSE IF e.g["page"] = Pages[2] THEN InventoryStatus(e)
  ELSE IF e.g["page"] = Pages[3] THEN TrendsPatterns(e)
  ELSE e

\* the state in which the script starts: nothing bound, nothing shown
Fresh(w, c) ==
  [g |-> << >>, screen |-> << >>, err |-> "none", w |-> w, cache |-> c, read |-> FALSE]

\* One execution of the script, top to bottom, from the session's widget
\* values w and the cache c.
Script(src, w, c) ==
  View(PageSelection(KpiSection(Title(ApplyFilters(StoreFilter(CategoryFilter(
    RegionFilter(SidebarHeader(LoadSection(src, Fresh(w, c)))))))))))

----------------------------------------------------------------------------
(* Source files *)

Source(readable, columns, rows) ==
  [readable |-> readable, columns |-> columns, rows |-> rows]

\* files with the eight columns
WellFormed == {Source(TRUE, Columns, t) : t \in Tables}

\* files that cannot be read, or lack one column
Defective ==
  {Source(FALSE, Columns, t) : t \in Tables}
  \cup {Source(TRUE, Columns \ {c}, t) : c \in Columns, t \in Tables}

\* the contents the file takes when it is rewritten while the app runs
Rewrites == {t \in Tables : Len(t) <= 1}

----------------------------------------------------------------------------
(* State machine *)

Start(sources) ==
  /\ source \in sources
  /\ cache = << >>
  /\ session = << >>
  /\ globals = << >>
  /\ screen = << >>
  /\ error = "none"
  /\ file_read = FALSE

\* What an execution e of the script leaves behind is the new state.
Leave(e) ==
  /\ cache' = e.cache
  /\ session' = e.w
  /\ globals' = e.g
  /\ screen' = e.screen
  /\ error' = e.err
  /\ file_read' = e.read
  /\ UNCHANGED source

\* The script runs, whole, with the widget values w.
Execute(w) == Leave(Script(source, w, cache))

Rendered(el, label) ==
  \E i \in 1..Len(screen) : screen[i].el = el /\ screen[i].data.label = label

Widget(el, label) ==
  screen[CHOOSE i \in 1..Len(screen) :
           screen[i].el = el /\ screen[i].data.label = label].data

Toggle(S, x) == IF x \in S THEN S \ {x} ELSE S \cup {x}

\* The page is opened, or rerun, with the session's widget values.
Run == Execute(session)

\* The user adds or removes one option of a sidebar filter; the script reruns.
SelectOption(label) ==
  /\ Rendered("multiselect", label)
  /\ \E i \in 1..Len(Widget("multiselect", label).options) :
       Execute((label :> Toggle(session[label], Widget("multiselect", label).options[i]))
               @@ session)

SelectRegion == SelectOption("Region")

SelectCategory == SelectOption("Category")

SelectStore == SelectOption("Store")

\* The user picks another view; the script reruns.
SelectPage ==
  /\ Rendered("radio", "Select View:")
  /\ \E i \in 1..Len(Pages) :
       /\ Pages[i] # session["Select View:"]
       /\ Execute(("Select View:" :> Pages[i]) @@ session)

\* The source file is rewritten on disk; nothing of the app runs.
SourceChange ==
  /\ \E t \in Rewrites : t # source.rows /\ source' = [source EXCEPT !.rows = t]
  /\ UNCHANGED <<cache, session, globals, screen, error, file_read>>

Init == Start(WellFormed)

Next == Run \/ SelectRegion \/ SelectCategory \/ SelectStore \/ SelectPage

Spec == Init /\ [][Next]_vars

\* the dashboard over a file that is unreadable or lacks a column
InitLoad == Start(Defective)

SpecLoad == InitLoad /\ [][Next]_vars

\* the dashboard over a file that changes while the app runs
InitCache == Start({Source(TRUE, Columns, t) : t \in Rewrites})

NextCache == Next \/ SourceChange

SpecCache == InitCache /\ [][NextCache]_vars


----------------------------------------------------------------------------
(* What the claims are stated over *)

Has(name) == name \in DOMAIN globals

\* an execution of the script has happened
PassRan == file_read \/ screen # << >> \/ error # "none"

Base == globals["df"].rows

Filtered == globals["filtered_df"]

\* the positions of the base table the current selection admits
Admitted ==
  {i \in 1..Len(Base) :
     /\ Base[i]["Region"] \in session["Region"]
     /\ Base[i]["Category"] \in session["Category"]
     /\ Base[i]["Store ID"] \in session["Store"]}

\* the base-table position of the k-th filtered record
Pos(k) == Filtered[k]["index"] + 1

RECURSIVE SumFn(_)
SumFn(f) ==
  IF DOMAIN f = {} THEN 0
  ELSE LET x == CHOOSE x \in DOMAIN f : TRUE
       IN f[x] + SumFn([y \in DOMAIN f \ {x} |-> f[y]])

\* the sum of column c over the filtered records at the positions K
SumAt(K, c) == SumFn([k \in K |-> Filtered[k][c]])

Keys(series) == {series[i][1] : i \in 1..Len(series)}

Values(series) == [i \in 1..Len(series) |-> series[i][2]]

IsZero(mean) == mean # NaNf /\ mean[1] = 0

----------------------------------------------------------------------------
(* C1 *)

\* C1: the filtered table is exactly the base-table records whose Region,
\* Category and Store ID are each in the respective selection, in the base
\* table's order: nothing else is retained and nothing admitted is missing.
C1_FilterExact ==
  Has("filtered_df") =>
    /\ \A k \in 1..Len(Filtered) : Pos(k) \in Admitted /\ Filtered[k] = Base[Pos(k)]
    /\ \A i \in Admitted : \E k \in 1..Len(Filtered) : Pos(k) = i
    /\ \A k, l \in 1..Len(Filtered) : k < l => Pos(k) < Pos(l)
    /\ \A k \in 1..Len(Filtered) :
         /\ Filtered[k]["Region"] \in session["Region"]
         /\ Filtered[k]["Category"] \in session["Category"]
         /\ Filtered[k]["Store ID"] \in session["Store"]

\* a selection that keeps some records and drops others, one of them only
\* because of its store
C1_Witness ==
  /\ Has("filtered_df")
  /\ Len(Filtered) > 0
  /\ Len(Filtered) < Len(Base)
  /\ \E i \in 1..Len(Base) :
       /\ Base[i]["Region"] \in session["Region"]
       /\ Base[i]["Category"] \in session["Category"]
       /\ Base[i]["Store ID"] \notin session["Store"]

----------------------------------------------------------------------------
(* C2 *)

\* C2: with an empty selection in any one facet, the filtered table has no
\* rows and total revenue, average inventory, low-stock count and overstock
\* count are all zero.
C2_EmptySelectionAllZero ==
  (/\ Has("overstock_count")
   /\ (session["Region"] = {} \/ session["Category"] = {} \/ session["Store"] = {}))
  => /\ Len(Filtered) = 0
     /\ globals["total_revenue"] = 0
     /\ IsZero(globals["avg_inventory"])
     /\ globals["low_stock_count"] = 0
     /\ globals["overstock_count"] = 0

----------------------------------------------------------------------------
(* C5 *)

\* C5: the values of the Revenue by Region series sum to the total-revenue
\* KPI of the same filtered table.
C5_RegionSumIsTotal ==
  Has("revenue_region") =>
    SumSeq(Values(globals["revenue_region"])) = globals["total_revenue"]

\* two regions shown, one of them the sum of two records with revenue
C5_Witness ==
  /\ Has("revenue_region")
  /\ Len(globals["revenue_region"]) = 2
  /\ Len(Filtered) = 3
  /\ \A k \in 1..Len(Filtered) : Filtered[k]["Revenue"] > 0

----------------------------------------------------------------------------
(* C6 *)

\* C6: the Stock Status counts are the numbers of filtered records below
\* 100, from 100 to 400 (both ends included) and above 400; every record
\* is in exactly one of the three and the counts sum to the row count.
C6_StockPartition ==
  Has("high_stock") =>
    LET K == 1..Len(Filtered)
        low == {k \in K : Filtered[k]["Inventory Level"] < 100}
        opt == {k \in K : Filtered[k]["Inventory Level"] \in 100..400}
        high == {k \in K : Filtered[k]["Inventory Level"] > 400}
    IN /\ globals["low_stock"] = Cardinality(low)
       /\ globals["optimal"] = Cardinality(opt)
       /\ globals["high_stock"] = Cardinality(high)
       /\ low \cup opt \cup high = K
       /\ low \cap opt = {} /\ opt \cap high = {} /\ low \cap high = {}
       /\ globals["low_stock"] + globals["optimal"] + globals["high_stock"] = Len(Filtered)

\* records at 100 and at 400 are both counted optimal, next to a low one
C6_Witness ==
  /\ Has("high_stock")
  /\ \E k \in 1..Len(Filtered) : Filtered[k]["Inventory Level"] = 100
  /\ \E k \in 1..Len(Filtered) : Filtered[k]["Inventory Level"] = 400
  /\ globals["optimal"] = 2
  /\ globals["low_stock"] + globals["high_stock"] = 1


----------------------------------------------------------------------------
(* C3 *)

\* C3: over a source that is unreadable or lacks a required column, every
\* execution fails, and fails before anything is on the screen.  (Whatever
\* exception stops the run is taken for the DataSourceError.)
C3_FailsBeforeAnyElement ==
  (PassRan /\ (~source.readable \/ source.columns # Columns))
  => (error # "none" /\ screen = << >>)

----------------------------------------------------------------------------
(* C4 *)

\* C4: in every execution of the script, the table used is the table
\* derived from the source as it is now, and the file is not read again
\* when the cached table is already that table.
C4_TableFollowsSource ==
  [][source' = source =>
       /\ globals'["df"] = load_data(source).df
       /\ (cache # << >> /\ cache[1] = load_data(source).df) => ~file_read']_vars

----------------------------------------------------------------------------
(* C7 *)

\* the Date texts of the pool that name no day
Unparsable == {<<13, 1, 23>>, <<2, 29, 23>>}

Undated == {k \in 1..Len(Filtered) : Filtered[k]["Date"] = NaT}

PivotTotal(pv) ==
  SumFn([c \in {<<i, j>> \in (1..Len(pv.index)) \X (1..Len(pv.columns)) :
                   pv.values[i][j] # NaNf}
         |-> pv.values[c[1]][c[2]][1]])

\* C7: a record whose Date does not parse stays in the base table with the
\* unknown-date marker and its other fields intact, is filtered like any
\* other record, counts in the KPIs, in the units-by-season series and in
\* the pivot, and is left out of the monthly series only: the monthly
\* series sums to total revenue minus the revenue of the undated records.
C7_UndatedRetained ==
  Has("overstock_count") =>
    /\ Len(Base) = Len(source.rows)
    /\ \A i \in 1..Len(Base) :
         /\ \A c \in Columns \ {"Date"} : Base[i][c] = source.rows[i][c]
         /\ source.rows[i]["Date"] \in Unparsable
              => Base[i]["Date"] = NaT /\ Base[i]["Month_Name"] = NaN
         /\ source.rows[i]["Date"] \notin Unparsable => Base[i]["Date"] # NaT
    /\ {Pos(k) : k \in 1..Len(Filtered)} = Admitted
    /\ globals["total_revenue"] = SumAt(1..Len(Filtered), "Revenue")
    /\ globals["avg_inventory"] = Mean(Col(Filtered, "Inventory Level"))
    /\ globals["low_stock_count"] + globals["overstock_count"]
         = Cardinality({k \in 1..Len(Filtered) :
                          Filtered[k]["Inventory Level"] \notin 100..400})
    /\ Has("pivot_data") =>
         /\ SumSeq(Values(globals["monthly_data"]))
              = globals["total_revenue"] - SumAt(Undated, "Revenue")
         /\ NaN \notin Keys(globals["monthly_data"])
         /\ SumSeq(Values(globals["seasonal_data"]))
              = SumAt(1..Len(Filtered), "Units Sold")
         /\ PivotTotal(globals["pivot_data"]) = globals["total_revenue"]

\* Trends & Patterns with an undated record that has revenue next to a
\* dated one
C7_Witness ==
  /\ Has("pivot_data")
  /\ \E k \in Undated : Filtered[k]["Revenue"] > 0
  /\ \E k \in 1..Len(Filtered) : k \notin Undated /\ Filtered[k]["Revenue"] > 0
  /\ globals["monthly_data"] # << >>

----------------------------------------------------------------------------
(* C8 *)

CalendarNumber ==
  [January |-> 1, February |-> 2, March |-> 3, April |-> 4, May |-> 5,
   June |-> 6, July |-> 7, August |-> 8, September |-> 9, October |-> 10,
   November |-> 11, December |-> 12]

\* C8: the monthly series runs in calendar order, has one entry for each
\* month name some filtered record carries and no other, and each entry is
\* the revenue sum of the filtered records of that month.
C8_MonthlySeries ==
  Has("monthly_data") =>
    LET m == globals["monthly_data"]
    IN /\ \A i, j \in 1..Len(m) :
            i < j => CalendarNumber[m[i][1]] < CalendarNumber[m[j][1]]
       /\ Keys(m) = {Filtered[k]["Month_Name"] : k \in 1..Len(Filtered)} \ {NaN}
       /\ \A i \in 1..Len(m) :
            m[i][2] = SumAt({k \in 1..Len(Filtered) :
                               Filtered[k]["Month_Name"] = m[i][1]}, "Revenue")

\* records of March, January and December, in that order: calendar order
\* is neither the order first seen nor the alphabetical one
C8_Witness ==
  /\ Has("monthly_data")
  /\ Len(Filtered) = 3
  /\ Filtered[1]["Month_Name"] = "March"
  /\ Filtered[2]["Month_Name"] = "January"
  /\ Filtered[3]["Month_Name"] = "December"
  /\ Len(globals["monthly_data"]) = 3


----------------------------------------------------------------------------
(* C9 *)

ChartKinds == {"bar", "line", "pie", "histogram", "heatmap"}

\* the charts of each view
ChartsOf(view) ==
  IF view = "Sales Overview"
  THEN {<<"bar", "Revenue by Region">>, <<"bar", "Revenue by Category">>,
        <<"bar", "Top Stores by Revenue">>}
  ELSE IF view = "Inventory Status"
  THEN {<<"histogram", "Inventory Distribution">>, <<"bar", "Avg Inventory by Region">>,
        <<"pie", "Inventory Distribution">>}
  ELSE {<<"line", "Monthly Revenue Trend">>, <<"bar", "Units Sold by Season">>,
        <<"heatmap", "Revenue: Category x Region">>}

ShownCharts ==
  {<<screen[i].el, screen[i].data.title>> :
     i \in {j \in 1..Len(screen) : screen[j].el \in ChartKinds}}

ShownViews ==
  {screen[i].at : i \in 1..Len(screen)} \ {"sidebar", "main", "kpi"}

Card(label) == Widget("metric", label).value

AdmittedInventory == [i \in Admitted |-> Base[i]["Inventory Level"]]

\* what is on the screen after an execution, against the session's
\* selection and view
ShowsCurrent ==
  /\ error = "none"
  /\ screen = Script(source, session, cache).screen
  /\ Card("Total Revenue") = <<SumFn([i \in Admitted |-> Base[i]["Revenue"]])>>
  /\ Card("Avg Inventory")
       = IF Admitted = {} THEN << >>
         ELSE Format0f(<<SumFn(AdmittedInventory), Cardinality(Admitted)>>)
  /\ Card("Low Stock Items")
       = <<Cardinality({i \in Admitted : AdmittedInventory[i] < 100})>>
  /\ Card("Overstocked Items")
       = <<Cardinality({i \in Admitted : AdmittedInventory[i] > 400})>>
  /\ ShownViews = {session["Select View:"]}
  /\ ShownCharts = ChartsOf(session["Select View:"])

\* C9: the first execution starts with every option of the three filters
\* selected and the view Sales Overview; after every execution the four
\* KPI cards are those of the current selection, the charts on the screen
\* are those of the selected view and of no other, and the whole screen is
\* what the script yields for the current selection and view.
C9_ShowsCurrentSelection ==
  /\ [](PassRan => ShowsCurrent)
  /\ [][~PassRan =>
          /\ session'["Select View:"] = "Sales Overview"
          /\ session'["Region"] = unique(source.rows, "Region")
          /\ session'["Category"] = unique(source.rows, "Category")
          /\ session'["Store"] = unique(source.rows, "Store ID")]_vars

\* a view other than the first, reached after the selection was narrowed
\* to part of the table
C9_Witness ==
  /\ PassRan
  /\ session["Select View:"] = "Inventory Status"
  /\ Admitted # {}
  /\ Cardinality(Admitted) < Len(Base)
  /\ ShownCharts = ChartsOf("Inventory Status")

----------------------------------------------------------------------------
(* C10 *)

Index(seq, x) == CHOOSE i \in 1..Len(seq) : seq[i] = x

\* the pivot's cell of category c and region r; a key the pivot does not
\* have has no cell
Cell(pv, c, r) ==
  IF c \in {pv.index[i] : i \in 1..Len(pv.index)}
     /\ r \in {pv.columns[j] : j \in 1..Len(pv.columns)}
  THEN pv.values[Index(pv.index, c)][Index(pv.columns, r)]
  ELSE NaNf

\* C10: a cell of the pivot is the revenue sum of the filtered records of
\* its category and region when there is such a record (a zero when they
\* sum to zero) and is missing when there is none.
C10_PivotCells ==
  Has("pivot_data") =>
    \A c \in unique(Base, "Category"), r \in unique(Base, "Region") :
      LET K == {k \in 1..Len(Filtered) :
                  Filtered[k]["Category"] = c /\ Filtered[k]["Region"] = r}
      IN Cell(globals["pivot_data"], c, r)
           = IF K = {} THEN NaNf ELSE <<SumAt(K, "Revenue")>>

\* a 2 x 2 pivot with a missing cell, a zero cell and a positive cell
C10_Witness ==
  /\ Has("pivot_data")
  /\ Len(globals["pivot_data"].index) = 2
  /\ Len(globals["pivot_data"].columns) = 2
  /\ \E i, j \in 1..2 : globals["pivot_data"].values[i][j] = NaNf
  /\ \E i, j \in 1..2 : globals["pivot_data"].values[i][j] = <<0>>
  /\ \E i, j \in 1..2 : globals["pivot_data"].values[i][j] = <<300>>

====
